---- MODULE Spec2Model ----
(***************************************************************************)
(* Model of decoder/src/stream/rzcobs.rs: the rzCOBS frame codec           *)
(* (rzcobs_decode), the buffer helpers (received_inner, advance_inner) and *)
(* the two stream decoders built on them (Rzcobs, RzcobsOwned).            *)
(*                                                                         *)
(* One decoder instance is modelled per behaviour; `variant` records which *)
(* of the two structs was constructed.  Bytes are integers in 0..255.      *)
(* SpecPair runs one decoder of each struct on the same calls, and         *)
(* SpecCodec runs rzcobs_decode alone, one control byte per step.          *)
(* Slice indices are kept 0-based as in the source (`zero`, `nonzero`);    *)
(* sequences are 1-based, so raw[..zero] is SubSeq(buf, 1, zero).          *)
(***************************************************************************)
EXTENDS Integers, Sequences, FiniteSets, TLC

\* ---------------------------------------------------------------- bounds
\* Total number of bytes fed to the decoder in one behaviour.
MaxStream == 5
\* Longest chunk handed to one received() call.
MaxChunk == 3

\* Codec inputs are a run of literal bytes 1, 2, 3, ... followed by one
\* control byte; the run has up to ShortRun bytes or LongRunMin..MaxData - 1.
ShortRun == 9
\* Longest input given to rzcobs_decode on its own.
MaxData == 135

\* Bytes the environment may send: the separator, a bitmap control byte
\* that needs no literal (0x7f) and one that needs one literal (0x7e).
Bytes == {0, 126, 127}

\* ------------------------------------------------------------ result types
None == -1

Ok(v) == [ok |-> TRUE, val |-> v, err |-> "none"]

Err(e) == [ok |-> FALSE, val |-> <<>>, err |-> e]

\* ------------------------------------------------------------- sequences
Last(s) == s[Len(s)]

Front(s) == SubSeq(s, 1, Len(s) - 1)

Reverse(s) == [i \in 1..Len(s) |-> s[Len(s) + 1 - i]]

Min(S) == CHOOSE i \in S : \A j \in S : i <= j

\* Variant of position_zero: the end of the buffer counts as a separator.
position_zero_or_end(buf) ==
    LET S == {i \in 0..(Len(buf) - 1) : buf[i + 1] = 0}
    IN  IF S = {} THEN (IF buf = <<>> THEN None ELSE Len(buf)) ELSE Min(S)

\* Iterator::position: 0-based index of the first zero byte, or None.
position_zero(buf) ==
    LET S == {i \in 0..(Len(buf) - 1) : buf[i + 1] = 0}
    IN  IF S = {} THEN None ELSE Min(S)

\* Iterator::position: 0-based index of the first non-zero byte, or None.
position_nonzero(buf) ==
    LET S == {i \in 0..(Len(buf) - 1) : buf[i + 1] # 0}
    IN  IF S = {} THEN None ELSE Min(S)

\* --------------------------------------------------------------- the codec
\* x & (1 << k), as 0 or 1.
Bit(x, k) == (x \div (2 ^ k)) % 2

\* Variant of run_length: without the mask.
run_length_unmasked(x) == (x + 7) % 256

\* The run length of a 0x80..=0xfe control byte, in u8 arithmetic.
run_length(x) == ((x % 128) + 7) % 256

\* Variant of RawRun: one byte less.
RawRun_one_less == 134 - 1

\* The length of the run copied for control byte 0xff.
RawRun == 134

\* Variant of bitmap_arm: tests the bits from the least significant one.
RECURSIVE bitmap_arm_lsb_first(_, _, _, _)
bitmap_arm_lsb_first(x, i, it, res) ==
    IF i = 7 THEN [ok |-> TRUE, it |-> it, res |-> res]
    ELSE IF Bit(x, i) = 0
         THEN IF it = <<>>
              THEN [ok |-> FALSE, it |-> it, res |-> res]
              ELSE bitmap_arm_lsb_first(x, i + 1, Front(it),
                                        Append(res, Last(it)))
         ELSE bitmap_arm_lsb_first(x, i + 1, it, Append(res, 0))

\* `for i in 0..7` of the bitmap arm.  `it` is what the reversed iterator
\* has not yet yielded (next() takes its last element), `res` the output.
RECURSIVE bitmap_arm(_, _, _, _)
bitmap_arm(x, i, it, res) ==
    IF i = 7 THEN [ok |-> TRUE, it |-> it, res |-> res]
    ELSE IF Bit(x, 6 - i) = 0
         THEN IF it = <<>>
              THEN [ok |-> FALSE, it |-> it, res |-> res]
              ELSE bitmap_arm(x, i + 1, Front(it), Append(res, Last(it)))
         ELSE bitmap_arm(x, i + 1, it, Append(res, 0))

\* Variant of copy_run: `0..=n`, one byte more than asked.
copy_run_one_more(n, it, res) ==
    LET k == IF Len(it) < n + 1 THEN Len(it) ELSE n + 1
    IN  [ok  |-> Len(it) >= n + 1,
         it  |-> SubSeq(it, 1, Len(it) - k),
         res |-> res \o [j \in 1..k |-> it[Len(it) + 1 - j]]]

\* `for _ in 0..n { res.push(data.next().ok_or(Malformed)?) }`: the loop
\* pushes the last min(n, Len(it)) bytes of `it`, last byte first, and
\* fails at the first next() that finds the iterator exhausted.  (Written
\* without recursion: n is up to 134.)
copy_run(n, it, res) ==
    LET k == IF Len(it) < n THEN Len(it) ELSE n
    IN  [ok  |-> Len(it) >= n,
         it  |-> SubSeq(it, 1, Len(it) - k),
         res |-> res \o [j \in 1..k |-> it[Len(it) + 1 - j]]]

\* Variant of control_arm: the zero of the 0x80..=0xfe arm is pushed after
\* the run.
control_arm_zero_last(x, it, res) ==
    CASE x = 0          -> [ok |-> FALSE, it |-> it, res |-> res]
      [] x \in 1..127   -> bitmap_arm(x, 0, it, res)
      [] x \in 128..254 ->
             LET r == copy_run(run_length(x), it, res)
             IN  [ok |-> r.ok, it |-> r.it, res |-> Append(r.res, 0)]
      [] x = 255        -> copy_run(RawRun, it, res)

\* Variant of control_arm: a 0x00 control byte is skipped.
control_arm_zero_skipped(x, it, res) ==
    CASE x = 0          -> [ok |-> TRUE, it |-> it, res |-> res]
      [] x \in 1..127   -> bitmap_arm(x, 0, it, res)
      [] x \in 128..254 -> copy_run(run_length(x), it, Append(res, 0))
      [] x = 255        -> copy_run(RawRun, it, res)

\* One iteration of `while let Some(x) = data.next()`: the match on x.
control_arm(x, it, res) ==
    CASE x = 0          -> [ok |-> FALSE, it |-> it, res |-> res]
      [] x \in 1..127   -> bitmap_arm(x, 0, it, res)
      [] x \in 128..254 -> copy_run(run_length(x), it, Append(res, 0))
      [] x = 255        -> copy_run(RawRun, it, res)

RECURSIVE decode_loop(_, _)
decode_loop(it, res) ==
    IF it = <<>> THEN Ok(Reverse(res))
    ELSE LET r == control_arm(Last(it), Front(it), res)
         IN  IF r.ok THEN decode_loop(r.it, r.res) ELSE Err("Malformed")

rzcobs_decode(data) == decode_loop(data, <<>>)

\* --------------------------------------------------------------- the Table
\* The Table is an external collaborator: a read-only map from a payload
\* to a Frame plus the number of bytes consumed, or a failure.  Here the
\* first payload byte is the index of a table entry and the entry gives the
\* number of argument bytes that follow it.
TableEntries == (0 :> 5) @@ (127 :> 8)

table_decode(bytes) ==
    IF bytes = <<>> THEN Err("UnexpectedEof")
    ELSE IF bytes[1] \notin DOMAIN TableEntries THEN Err("Malformed")
    ELSE LET n == TableEntries[bytes[1]]
         IN  IF Len(bytes) < 1 + n THEN Err("UnexpectedEof")
             ELSE Ok([frame    |-> [index |-> bytes[1],
                                    args  |-> SubSeq(bytes, 2, 1 + n)],
                      consumed |-> 1 + n])

\* ---------------------------------------------------------- buffer helpers
RECURSIVE trim_zeros(_)
trim_zeros(data) ==
    IF data # <<>> /\ Head(data) = 0 THEN trim_zeros(Tail(data)) ELSE data

\* Variant of received_inner: trims whatever the buffer holds.
received_inner_always_trim(buf, data) == buf \o trim_zeros(data)

\* Variant of received_inner: never trims.
received_inner_no_trim(buf, data) == buf \o data

\* Variant of received_inner: drops every 0x00 of the data, not only the
\* leading ones.
received_inner_drop_zeros(buf, data) ==
    IF buf = <<>> THEN buf \o SelectSeq(data, LAMBDA b : b # 0)
    ELSE buf \o data

received_inner(buf, data) ==
    IF buf = <<>> THEN buf \o trim_zeros(data) ELSE buf \o data

\* raw.drain(0..n)
drain(buf, n) == SubSeq(buf, n + 1, Len(buf))

\* Variant of advance_inner: pops the frame and one separator only.
advance_inner_one_separator(buf, zero) == drain(buf, zero + 1)

\* Variant of advance_inner: without the else branch.
advance_inner_no_clear(buf, zero) ==
    LET nonzero == position_nonzero(SubSeq(buf, zero + 1, Len(buf)))
    IN  IF nonzero # None THEN drain(buf, zero + nonzero) ELSE buf

\* Variant of advance_inner: drains one byte too many.
advance_inner_off_by_one(buf, zero) ==
    LET nonzero == position_nonzero(SubSeq(buf, zero + 1, Len(buf)))
    IN  IF nonzero # None THEN drain(buf, zero + nonzero + 1) ELSE <<>>

advance_inner(buf, zero) ==
    LET nonzero == position_nonzero(SubSeq(buf, zero + 1, Len(buf)))
    IN  IF nonzero # None THEN drain(buf, zero + nonzero) ELSE <<>>

\* ------------------------------------------------------------------- state
VARIABLES
    variant,    \* which struct was constructed: "Rzcobs" or "RzcobsOwned"
    raw,        \* the decoder's `raw: Vec<u8>`
    panicked,   \* the debug_assert! in decode() has failed
    op,         \* the last method called on the decoder
    pre,        \* `raw` as it was when the last method was called
    codec_in,   \* the slices the last method handed to rzcobs_decode
    result,     \* what the last decode() returned
    processed,  \* what the last frame_and_decode() returned
    calls,      \* the callback invocations made by the last frame_and_decode()
    stream,     \* every byte passed to received() so far, in order
    outs,       \* the results of decode() so far, UnexpectedEof left out
    raw_owned,  \* `raw` of the RzcobsOwned when one decoder of each struct runs
    codec       \* the locals of a running rzcobs_decode call

vars == <<variant, raw, panicked, op, pre, codec_in, result, processed, calls,
          stream, outs, raw_owned, codec>>

NoFrame == [index |-> None, args |-> <<>>]

\* Result<Frame, DecodeError> of decode().
Returned(kind, frame) == [kind |-> kind, frame |-> frame]

\* Option<Frame> handed to the callback.
Some(frame) == [some |-> TRUE, frame |-> frame]

NoneFrame == [some |-> FALSE, frame |-> NoFrame]

Chunks == UNION {[1..n -> Bytes] : n \in 0..MaxChunk}

\* ---------------------------------------------------------------- Rzcobs
\* Variant of map_table_error: the Table's error is returned as it is.
map_table_error_passthrough(e) == e

\* The match on the Table's error in decode().
map_table_error(e) ==
    CASE e = "UnexpectedEof" -> "Malformed"
      [] e = "Malformed"     -> "Malformed"

\* Variant of decode_call: `?` on the codec's result before advance_inner.
decode_call_early_return(buf) ==
    LET zero == position_zero(buf)
    IN  IF zero = None
        THEN [raw |-> buf, panicked |-> FALSE, codec_in |-> <<>>,
              result |-> Returned("UnexpectedEof", NoFrame)]
        ELSE LET frame    == rzcobs_decode(SubSeq(buf, 1, zero))
                 advanced == advance_inner(buf, zero)
                 asserted == advanced = <<>> \/ advanced[1] # 0
                 decoded  == table_decode(frame.val)
             IN  IF ~frame.ok
                 THEN [raw |-> buf, panicked |-> FALSE,
                       codec_in |-> <<SubSeq(buf, 1, zero)>>,
                       result |-> Returned(frame.err, NoFrame)]
                 ELSE [raw      |-> advanced,
                       panicked |-> ~asserted,
                       codec_in |-> <<SubSeq(buf, 1, zero)>>,
                       result   |->
                           IF ~asserted THEN Returned("panic", NoFrame)
                           ELSE IF decoded.ok
                                THEN Returned("Frame", decoded.val.frame)
                                ELSE Returned(map_table_error(decoded.err),
                                              NoFrame)]

\* The body of Rzcobs::decode on buffer `buf`: the new buffer, whether the
\* debug assertion failed, the slices given to the codec and the value
\* returned.
decode_call(buf) ==
    LET zero == position_zero(buf)
    IN  IF zero = None
        THEN [raw |-> buf, panicked |-> FALSE, codec_in |-> <<>>,
              result |-> Returned("UnexpectedEof", NoFrame)]
        ELSE LET frame    == rzcobs_decode(SubSeq(buf, 1, zero))
                 advanced == advance_inner(buf, zero)
                 asserted == advanced = <<>> \/ advanced[1] # 0
                 decoded  == table_decode(frame.val)
             IN  [raw      |-> advanced,
                  panicked |-> ~asserted,
                  codec_in |-> <<SubSeq(buf, 1, zero)>>,
                  result   |->
                      IF ~asserted THEN Returned("panic", NoFrame)
                      ELSE IF ~frame.ok THEN Returned(frame.err, NoFrame)
                      ELSE IF decoded.ok
                           THEN Returned("Frame", decoded.val.frame)
                           ELSE Returned(map_table_error(decoded.err), NoFrame)]

\* ------------------------------------------------------------ RzcobsOwned
\* Variant of decoded_len: a length only when the Table accepted the payload.
decoded_len_table_ok(frame) ==
    IF frame.ok /\ table_decode(frame.val).ok THEN Len(frame.val) ELSE 0

\* frame.as_ref().map(|f| f.len()).unwrap_or(0)
decoded_len(frame) == IF frame.ok THEN Len(frame.val) ELSE 0

\* Variant of frame_and_decode_call: loops until no separator is left.
RECURSIVE frame_and_decode_call_all(_)
frame_and_decode_call_all(buf) ==
    LET zero == position_zero(buf)
    IN  IF zero = None
        THEN [raw |-> buf, codec_in |-> <<>>, calls |-> <<>>,
              processed |-> FALSE]
        ELSE LET frame   == rzcobs_decode(SubSeq(buf, 1, zero))
                 decoded == table_decode(frame.val)
                 arg     == IF frame.ok /\ decoded.ok
                            THEN Some(decoded.val.frame)
                            ELSE NoneFrame
                 rest    == frame_and_decode_call_all(advance_inner(buf, zero))
             IN  [raw       |-> rest.raw,
                  codec_in  |-> <<SubSeq(buf, 1, zero)>> \o rest.codec_in,
                  calls     |-> <<[raw   |-> SubSeq(buf, 1, zero),
                                   frame |-> arg,
                                   len   |-> decoded_len(frame)]>>
                                \o rest.calls,
                  processed |-> TRUE]

\* Variant of frame_and_decode_call: returns whether a Frame was decoded.
frame_and_decode_call_frame_found(buf) ==
    LET zero == position_zero(buf)
    IN  IF zero = None
        THEN [raw |-> buf, codec_in |-> <<>>, calls |-> <<>>,
              processed |-> FALSE]
        ELSE LET frame   == rzcobs_decode(SubSeq(buf, 1, zero))
                 decoded == table_decode(frame.val)
                 arg     == IF frame.ok /\ decoded.ok
                            THEN Some(decoded.val.frame)
                            ELSE NoneFrame
             IN  [raw       |-> advance_inner(buf, zero),
                  codec_in  |-> <<SubSeq(buf, 1, zero)>>,
                  calls     |-> <<[raw   |-> SubSeq(buf, 1, zero),
                                   frame |-> arg,
                                   len   |-> decoded_len(frame)]>>,
                  processed |-> arg.some]

\* The body of RzcobsOwned::frame_and_decode on buffer `buf`: the new
\* buffer, the slices given to the codec, the callback invocations in order
\* and the value returned.
frame_and_decode_call(buf) ==
    LET zero == position_zero(buf)
    IN  IF zero = None
        THEN [raw |-> buf, codec_in |-> <<>>, calls |-> <<>>,
              processed |-> FALSE]
        ELSE LET frame   == rzcobs_decode(SubSeq(buf, 1, zero))
                 decoded == table_decode(frame.val)
                 arg     == IF frame.ok /\ decoded.ok
                            THEN Some(decoded.val.frame)
                            ELSE NoneFrame
             IN  [raw       |-> advance_inner(buf, zero),
                  codec_in  |-> <<SubSeq(buf, 1, zero)>>,
                  calls     |-> <<[raw   |-> SubSeq(buf, 1, zero),
                                   frame |-> arg,
                                   len   |-> decoded_len(frame)]>>,
                  processed |-> TRUE]

\* No rzcobs_decode call is being followed.
CodecIdle ==
    [pc |-> "idle", data |-> <<>>, it |-> <<>>, res |-> <<>>, ctrl |-> <<>>,
     n |-> 0, out |-> Err("none")]

\* ----------------------------------------------------------------- actions
\* Rzcobs::new and RzcobsOwned::new.
Init ==
    /\ variant \in {"Rzcobs", "RzcobsOwned"}
    /\ raw = <<>>
    /\ panicked = FALSE
    /\ op = "new"
    /\ pre = <<>>
    /\ codec_in = <<>>
    /\ result = Returned("none", NoFrame)
    /\ processed = FALSE
    /\ calls = <<>>
    /\ stream = <<>>
    /\ outs = <<>>
    /\ raw_owned = <<>>
    /\ codec = CodecIdle

\* Rzcobs::received and RzcobsOwned::received.
received(data) ==
    /\ ~panicked
    /\ Len(stream) + Len(data) <= MaxStream
    /\ raw' = received_inner(raw, data)
    /\ stream' = stream \o data
    /\ op' = "received"
    /\ pre' = raw
    /\ codec_in' = <<>>
    /\ UNCHANGED <<variant, panicked, result, processed, calls, outs>>
    /\ UNCHANGED <<raw_owned, codec>>

\* Rzcobs::decode.
decode ==
    /\ variant = "Rzcobs"
    /\ ~panicked
    /\ LET r == decode_call(raw)
       IN  /\ raw' = r.raw
           /\ panicked' = r.panicked
           /\ codec_in' = r.codec_in
           /\ result' = r.result
           /\ outs' = IF r.result.kind = "UnexpectedEof"
                      THEN outs ELSE Append(outs, r.result)
    /\ op' = "decode"
    /\ pre' = raw
    /\ UNCHANGED <<variant, processed, calls, stream, raw_owned, codec>>

\* RzcobsOwned::frame_and_decode.
frame_and_decode ==
    /\ variant = "RzcobsOwned"
    /\ ~panicked
    /\ LET r == frame_and_decode_call(raw)
       IN  /\ raw' = r.raw
           /\ codec_in' = r.codec_in
           /\ calls' = r.calls
           /\ processed' = r.processed
    /\ op' = "frame_and_decode"
    /\ pre' = raw
    /\ UNCHANGED <<variant, panicked, result, stream, outs, raw_owned, codec>>

Next ==
    \/ \E data \in Chunks : received(data)
    \/ decode
    \/ frame_and_decode

Spec == Init /\ [][Next]_vars

\* ------------------------------------- one decoder of each struct, paired
\* Rzcobs::new and RzcobsOwned::new on the same Table.
InitPair ==
    /\ variant = "pair"
    /\ raw = <<>>
    /\ raw_owned = <<>>
    /\ panicked = FALSE
    /\ op = "new"
    /\ pre = <<>>
    /\ codec_in = <<>>
    /\ result = Returned("none", NoFrame)
    /\ processed = FALSE
    /\ calls = <<>>
    /\ stream = <<>>
    /\ outs = <<>>
    /\ codec = CodecIdle

\* Rzcobs::received and RzcobsOwned::received with the same data.
pair_received(data) ==
    /\ ~panicked
    /\ Len(stream) + Len(data) <= MaxStream
    /\ raw' = received_inner(raw, data)
    /\ raw_owned' = received_inner(raw_owned, data)
    /\ stream' = stream \o data
    /\ op' = "received"
    /\ pre' = raw
    /\ codec_in' = <<>>
    /\ UNCHANGED <<variant, panicked, result, processed, calls, outs, codec>>

\* Rzcobs::decode on the one decoder, RzcobsOwned::frame_and_decode on the
\* other.
pair_decode ==
    /\ ~panicked
    /\ LET r == decode_call(raw)
           o == frame_and_decode_call(raw_owned)
       IN  /\ raw' = r.raw
           /\ panicked' = r.panicked
           /\ codec_in' = r.codec_in \o o.codec_in
           /\ result' = r.result
           /\ outs' = IF r.result.kind = "UnexpectedEof"
                      THEN outs ELSE Append(outs, r.result)
           /\ raw_owned' = o.raw
           /\ calls' = o.calls
           /\ processed' = o.processed
    /\ op' = "decode"
    /\ pre' = raw
    /\ UNCHANGED <<variant, stream, codec>>

NextPair ==
    \/ \E data \in Chunks : pair_received(data)
    \/ pair_decode

SpecPair == InitPair /\ [][NextPair]_vars

\* ------------------------------------------------- rzcobs_decode on its own
\* The literal bytes 1, 2, ..., len.
Filler(len) == [i \in 1..len |-> i]

\* The shortest long run: two bytes less than the 0xff arm copies.
LongRunMin == MaxData - 3

\* The `data` arguments tried: a run of literals and any control byte, and
\* every short sequence of the bytes the decoders are fed.
CodecInputs ==
    {Filler(len) \o <<c>> :
         len \in (0..ShortRun) \cup (LongRunMin..(MaxData - 1)), c \in 0..255}
    \cup UNION {[1..len -> Bytes] : len \in 0..MaxChunk}

\* rzcobs_decode(data) is called: `res` is empty and the reversed iterator
\* has yielded nothing.
InitCodec ==
    /\ variant = "codec"
    /\ raw = <<>>
    /\ raw_owned = <<>>
    /\ panicked = FALSE
    /\ op = "new"
    /\ pre = <<>>
    /\ codec_in = <<>>
    /\ result = Returned("none", NoFrame)
    /\ processed = FALSE
    /\ calls = <<>>
    /\ stream = <<>>
    /\ outs = <<>>
    /\ \E data \in CodecInputs :
           codec = [pc |-> "run", data |-> data, it |-> data, res |-> <<>>,
                    ctrl |-> <<>>, n |-> 0, out |-> Err("none")]

\* One evaluation of `while let Some(x) = data.next()`: the loop ends and
\* the function returns, or one control byte and its literals are consumed.
\* `ctrl` collects the control bytes read and `n` is the local of the
\* 0x80..=0xfe arm.
codec_step ==
    /\ codec.pc = "run"
    /\ IF codec.it = <<>>
       THEN codec' = [codec EXCEPT !.pc = "done",
                                   !.out = decode_loop(codec.it, codec.res)]
       ELSE LET x == Last(codec.it)
                r == control_arm(x, Front(codec.it), codec.res)
                n == IF x \in 128..254 THEN run_length(x) ELSE 0
            IN  IF r.ok
                THEN codec' = [codec EXCEPT !.it = r.it, !.res = r.res,
                                            !.ctrl = Append(codec.ctrl, x),
                                            !.n = n]
                ELSE codec' = [codec EXCEPT
                                   !.pc = "done",
                                   !.ctrl = Append(codec.ctrl, x),
                                   !.n = n,
                                   !.out = decode_loop(codec.it, codec.res)]
    /\ UNCHANGED <<variant, raw, raw_owned, panicked, op, pre, codec_in,
                   result, processed, calls, stream, outs>>

NextCodec == codec_step

SpecCodec == InitCodec /\ [][NextCodec]_vars

TypeOK ==
    /\ variant \in {"Rzcobs", "RzcobsOwned", "pair", "codec"}
    /\ raw \in UNION {[1..n -> Bytes] : n \in 0..MaxStream}
    /\ panicked \in BOOLEAN
    /\ op \in {"new", "received", "decode", "frame_and_decode"}
    /\ processed \in BOOLEAN
    /\ Len(stream) <= MaxStream

\* ------------------------------------------- vocabulary of the properties
HasZero(buf) == \E i \in 1..Len(buf) : buf[i] = 0

IsPrefix(s, t) == Len(s) <= Len(t) /\ SubSeq(t, 1, Len(s)) = s

\* What is left of `buf` from its first 0x00 on.
RECURSIVE SkipFrame(_)
SkipFrame(buf) ==
    IF buf = <<>> \/ Head(buf) = 0 THEN buf ELSE SkipFrame(Tail(buf))

\* What is left of `buf` after its leading run of 0x00.
RECURSIVE SkipSeparators(_)
SkipSeparators(buf) ==
    IF buf = <<>> \/ Head(buf) # 0 THEN buf ELSE SkipSeparators(Tail(buf))

\* The bytes of the first frame of `buf`: those before its first 0x00.
FrameBytes(buf) == SubSeq(buf, 1, Len(buf) - Len(SkipFrame(buf)))

\* `buf` without its first frame and the separator run that ends it.
PastFrame(buf) == SkipSeparators(SkipFrame(buf))

\* The number of complete (separator-terminated) frames in `buf`.
RECURSIVE NumFrames(_)
NumFrames(buf) == IF HasZero(buf) THEN 1 + NumFrames(PastFrame(buf)) ELSE 0

\* The codec and the Table both accept the frame bytes.
WellFormed(bytes) ==
    /\ rzcobs_decode(bytes).ok
    /\ table_decode(rzcobs_decode(bytes).val).ok

\* The Frame of well-formed frame bytes.
FrameOf(bytes) == table_decode(rzcobs_decode(bytes).val).val.frame

\* -------------------------------------------------------------- properties

\* C1: whenever decode() returns Malformed the buffer has been advanced past
\* the first frame and the separator run that ends it; and when the buffer
\* before that call was [bad frame, separators, well-formed frame, 0x00, ...]
\* the decode() that follows immediately returns the Frame of the second
\* frame's bytes.
C1_MalformedResynchronizes ==
    [][ /\ (op' = "decode" /\ result'.kind = "Malformed")
            => (HasZero(raw) /\ raw' = PastFrame(raw))
        /\ LET second == FrameBytes(PastFrame(pre))
           IN  ( /\ op = "decode"
                 /\ result.kind = "Malformed"
                 /\ HasZero(PastFrame(pre))
                 /\ WellFormed(second)
                 /\ op' = "decode" )
               => result' = Returned("Frame", FrameOf(second))
      ]_vars

\* A Malformed frame followed by a well-formed one has been decoded by two
\* consecutive decode() calls.
C1_Witness ==
    /\ op = "decode"
    /\ stream = <<126, 0, 0, 127, 0>>
    /\ pre = <<127, 0>>
    /\ Len(outs) = 2
    /\ outs[1].kind = "Malformed"
    /\ outs[2] = Returned("Frame", FrameOf(<<127>>))

\* C2: when the buffer holds no 0x00, decode() returns UnexpectedEof and
\* leaves the buffer as it was, and the received() that follows appends its
\* bytes to exactly those bytes.
C2_EofLeavesBuffer ==
    [][ /\ (op' = "decode" /\ ~HasZero(raw))
            => (result'.kind = "UnexpectedEof" /\ raw' = raw)
        /\ (op = "decode" /\ result.kind = "UnexpectedEof" /\ op' = "received")
            => LET data == SubSeq(stream', Len(stream) + 1, Len(stream'))
               IN  /\ IsPrefix(raw, raw')
                   /\ raw # <<>> => raw' = raw \o data
      ]_vars

\* decode() returned UnexpectedEof on a non-empty buffer, then received()
\* added a separator to it.
C2_Witness ==
    /\ op = "received"
    /\ result.kind = "UnexpectedEof"
    /\ outs = <<>>
    /\ pre = <<127>>
    /\ raw = <<127, 0>>

\* The results, UnexpectedEof left out, of calling decode() on `buf` until
\* it returns UnexpectedEof.
RECURSIVE DecodeAll(_)
DecodeAll(buf) ==
    LET r == decode_call(buf)
    IN  IF r.result.kind = "UnexpectedEof" THEN <<>>
        ELSE <<r.result>> \o DecodeAll(r.raw)

\* The results of a fresh decoder given `s` in one received() call.
OneShot(s) == DecodeAll(received_inner(<<>>, s))

\* C3: however the stream was split into received() chunks and wherever
\* decode() was called in between, once decode() has returned UnexpectedEof
\* the results so far are those of a decoder that got the whole stream in
\* one received() call.
C3_ChunkBoundaryIndependence ==
    (op = "decode" /\ result.kind = "UnexpectedEof") => outs = OneShot(stream)

\* Two frames separated by a separator run arrived in at least two chunks
\* (the stream is longer than MaxChunk) and decode() has drained them.
C3_Witness ==
    /\ op = "decode"
    /\ result.kind = "UnexpectedEof"
    /\ stream = <<126, 0, 0, 127, 0>>
    /\ Len(outs) = 2
    /\ raw = <<>>

\* C4: in every reachable state, of either decoder, the buffer is empty or
\* its first byte is not 0x00, and the debug assertion of decode() has not
\* failed.
C4_NoLeadingSeparator ==
    /\ raw = <<>> \/ raw[1] # 0
    /\ ~panicked

\* A decode operation popped a frame and a run of two separators and left
\* the next frame at the front of the buffer.
C4_Witness ==
    /\ op \in {"decode", "frame_and_decode"}
    /\ raw # <<>>
    /\ Len(pre) >= Len(raw) + 3
    /\ pre[Len(pre) - Len(raw)] = 0
    /\ pre[Len(pre) - Len(raw) - 1] = 0

\* C5: every slice handed to the codec, by decode() or frame_and_decode(),
\* is non-empty and holds no 0x00, and so is every slice handed to the
\* callback; after received([0x00, 0x00, F, 0x00]) on a fresh decoder the
\* first result of decode() is the Frame of F.
C5_NoEmptyFrame ==
    /\ \A i \in 1..Len(codec_in) : codec_in[i] # <<>> /\ ~HasZero(codec_in[i])
    /\ \A i \in 1..Len(calls) : calls[i].raw # <<>> /\ ~HasZero(calls[i].raw)
    /\ \A F \in UNION {[1..n -> Bytes \ {0}] : n \in 1..MaxStream} :
           ( /\ stream = <<0, 0>> \o F \o <<0>>
             /\ WellFormed(F)
             /\ outs # <<>> )
           => outs[1] = Returned("Frame", FrameOf(F))

\* received([0x00, 0x00, 0x7f, 0x00]) on a fresh decoder, then one decode().
C5_Witness ==
    /\ op = "decode"
    /\ stream = <<0, 0, 127, 0>>
    /\ pre = <<127, 0>>
    /\ codec_in = <<(<<127>>)>>
    /\ outs = <<Returned("Frame", FrameOf(<<127>>))>>

\* The buffer after n calls of decode(), and after n calls of
\* frame_and_decode(), on `buf`.
RECURSIVE DecodeTimes(_, _)
DecodeTimes(buf, n) ==
    IF n = 0 THEN buf ELSE DecodeTimes(decode_call(buf).raw, n - 1)

RECURSIVE FrameAndDecodeTimes(_, _)
FrameAndDecodeTimes(buf, n) ==
    IF n = 0 THEN buf
    ELSE FrameAndDecodeTimes(frame_and_decode_call(buf).raw, n - 1)

NumZeros(buf) == Cardinality({i \in 1..Len(buf) : buf[i] = 0})

\* C6: a decode() or frame_and_decode() call that finds a separator leaves
\* the buffer strictly shorter, whatever the codec and the Table say; so
\* with no further received(), after at most as many calls as the buffer
\* holds separators decode() returns UnexpectedEof and frame_and_decode()
\* returns false, and decode() has returned no more results than the stream
\* has separators (no frame is returned twice).
C6_ForwardProgress ==
    /\ (op \in {"decode", "frame_and_decode"} /\ HasZero(pre))
           => Len(raw) < Len(pre)
    /\ LET n == NumZeros(raw)
       IN  /\ decode_call(DecodeTimes(raw, n)).result.kind = "UnexpectedEof"
           /\ ~frame_and_decode_call(FrameAndDecodeTimes(raw, n)).processed
    /\ Len(outs) <= NumZeros(stream)

\* decode() has popped a frame the codec rejected and then returned
\* UnexpectedEof on what was left.
C6_Witness ==
    /\ op = "decode"
    /\ result.kind = "UnexpectedEof"
    /\ outs = <<Returned("Malformed", NoFrame)>>
    /\ stream = <<126, 0, 127>>
    /\ raw = <<127>>

\* C7: decode() returns UnexpectedEof exactly when the buffer held no 0x00
\* when it was called; with a separator in the buffer it returns a Frame or
\* Malformed, also when the Table reported UnexpectedEof for the payload.
C7_EofOnlyWithoutSeparator ==
    op = "decode" =>
        /\ result.kind = "UnexpectedEof" <=> ~HasZero(pre)
        /\ HasZero(pre) => result.kind \in {"Frame", "Malformed"}
        /\ ( /\ HasZero(pre)
             /\ rzcobs_decode(FrameBytes(pre)).ok
             /\ ~table_decode(rzcobs_decode(FrameBytes(pre)).val).ok )
           => result.kind = "Malformed"

\* The codec accepted the frame, the Table reported UnexpectedEof for its
\* payload, and decode() returned Malformed.
C7_Witness ==
    /\ op = "decode"
    /\ HasZero(pre)
    /\ rzcobs_decode(FrameBytes(pre)).ok
    /\ table_decode(rzcobs_decode(FrameBytes(pre)).val).err = "UnexpectedEof"
    /\ result.kind = "Malformed"

\* The k-th frame of `buf`, counted from 1.
RECURSIVE NthFrame(_, _)
NthFrame(buf, k) ==
    IF k = 1 THEN FrameBytes(buf) ELSE NthFrame(PastFrame(buf), k - 1)

\* C8 as stated: one frame_and_decode() call on a buffer that holds k >= 1
\* complete frames invokes the callback once for each of the k frames, in
\* stream order.
C8_CallbackPerBufferedFrame ==
    (op = "frame_and_decode" /\ NumFrames(pre) >= 1)
        => /\ Len(calls) = NumFrames(pre)
           /\ \A k \in 1..Len(calls) : calls[k].raw = NthFrame(pre, k)

\* C8 (amended): one frame_and_decode() call on a buffer that holds k >= 1
\* complete frames invokes the callback exactly once, for the first frame
\* in stream order, and leaves the other k - 1 frames in the buffer.
C8_OneFramePerCall ==
    (op = "frame_and_decode" /\ NumFrames(pre) >= 1)
        => /\ Len(calls) = 1
           /\ calls[1].raw = NthFrame(pre, 1)
           /\ raw = PastFrame(pre)
           /\ NumFrames(raw) = NumFrames(pre) - 1

\* frame_and_decode() was called on a buffer of two complete frames.
C8_Witness ==
    /\ op = "frame_and_decode"
    /\ NumFrames(pre) = 2
    /\ Len(calls) = 1
    /\ NumFrames(raw) = 1

\* C9: for the frame that frame_and_decode() passes to the callback, the raw
\* bytes are the buffer content before the first separator as it was before
\* the buffer was advanced; the Frame is present exactly when the codec and
\* the Table both succeeded; the length is that of the codec's output when
\* the codec succeeded, also when the Table rejected it, and 0 when the
\* codec failed.
C9_CallbackArguments ==
    (op = "frame_and_decode" /\ processed)
        => \A k \in 1..Len(calls) :
               LET bytes   == NthFrame(pre, k)
                   payload == rzcobs_decode(bytes)
               IN  /\ calls[k].raw = bytes
                   /\ calls[k].frame.some <=> WellFormed(bytes)
                   /\ calls[k].frame.some
                          => calls[k].frame.frame = FrameOf(bytes)
                   /\ payload.ok => calls[k].len = Len(payload.val)
                   /\ ~payload.ok => calls[k].len = 0

\* The codec reconstructed seven bytes, the Table rejected them, and the
\* callback got no Frame and the length 7.
C9_Witness ==
    /\ op = "frame_and_decode"
    /\ processed
    /\ Len(calls) = 1
    /\ rzcobs_decode(FrameBytes(pre)).ok
    /\ ~calls[1].frame.some
    /\ calls[1].len = 7

\* C10: frame_and_decode() returns false exactly when the buffer held no
\* 0x00 when it was called, and then the callback was not invoked and the
\* buffer is unchanged; when it returns true the callback was invoked and
\* the buffer was advanced.
C10_ReturnValue ==
    op = "frame_and_decode" =>
        /\ ~processed <=> ~HasZero(pre)
        /\ ~processed => (calls = <<>> /\ raw = pre)
        /\ processed => ( /\ Len(calls) >= 1
                          /\ raw = PastFrame(pre)
                          /\ Len(raw) < Len(pre) )

\* frame_and_decode() returned true for a frame the codec rejected.
C10_Witness ==
    /\ op = "frame_and_decode"
    /\ processed
    /\ ~rzcobs_decode(FrameBytes(pre)).ok
    /\ Len(calls) = 1
    /\ raw # <<>>

\* C11: a Rzcobs and a RzcobsOwned that got the same received() calls and
\* the same decode attempts hold equal buffers after every step; decode()
\* returns UnexpectedEof exactly when frame_and_decode() returns false, and
\* returns a Frame exactly when the callback gets that Frame as present.
C11_VariantsAgree ==
    /\ raw = raw_owned
    /\ op = "decode" =>
           /\ result.kind = "UnexpectedEof" <=> ~processed
           /\ result.kind = "Frame"
                  <=> (calls # <<>> /\ calls[1].frame.some)
           /\ result.kind = "Frame" => calls[1].frame.frame = result.frame
           /\ Len(calls) = (IF result.kind = "UnexpectedEof" THEN 0 ELSE 1)

\* Both decoders got a Malformed frame, a separator run and a well-formed
\* frame, and the second decode attempt gave the Frame to both callers.
C11_Witness ==
    /\ variant = "pair"
    /\ op = "decode"
    /\ stream = <<126, 0, 0, 127, 0>>
    /\ outs = <<Returned("Malformed", NoFrame),
                Returned("Frame", FrameOf(<<127>>))>>
    /\ calls # <<>>
    /\ calls[1].frame = Some(FrameOf(<<127>>))
    /\ raw_owned = <<>>

\* The number of clear flags among the first j - 1 of the seven flags of
\* control byte c; flag j is bit 7 - j.
ClearBefore(c, j) == Cardinality({k \in 1..(j - 1) : Bit(c, 7 - k) = 0})

\* What a bitmap control byte c appends to the output when `rest` is the
\* input not yet processed: flag by flag, a zero or the next byte from the
\* end of `rest`.
BitmapOut(c, rest) ==
    [j \in 1..7 |-> IF Bit(c, 7 - j) = 1 THEN 0
                    ELSE rest[Len(rest) - ClearBefore(c, j)]]

\* C12: on a control byte c in 0x01..0x7f the codec goes through bits 6 down
\* to 0 of c, appends a zero for each set bit and the next unprocessed input
\* byte for each clear bit, and fails with Malformed when a clear bit finds
\* no input byte left; decode([0x7f]) is seven zeros and decode([0x01]) is
\* Malformed.
C12_BitmapRule ==
    /\ [][ ( /\ codec.pc = "run"
             /\ codec.it # <<>>
             /\ Last(codec.it) \in 1..127 )
           => LET c    == Last(codec.it)
                  rest == Front(codec.it)
                  need == ClearBefore(c, 8)
              IN  IF Len(rest) < need
                  THEN codec'.pc = "done" /\ codec'.out = Err("Malformed")
                  ELSE /\ codec'.pc = "run"
                       /\ codec'.res = codec.res \o BitmapOut(c, rest)
                       /\ codec'.it = SubSeq(rest, 1, Len(rest) - need)
         ]_vars
    /\ [](codec.pc = "done" =>
            /\ codec.data = <<127>> => codec.out = Ok(<<0, 0, 0, 0, 0, 0, 0>>)
            /\ codec.data = <<1>> => codec.out = Err("Malformed"))

\* Control byte 0x5b (flags 1011011) took the literals 2 and 1 for its two
\* clear flags.
C12_Witness ==
    /\ codec.pc = "done"
    /\ codec.data = <<1, 2, 91>>
    /\ codec.ctrl = <<91>>
    /\ codec.out = Ok(<<0, 0, 1, 0, 0, 2, 0>>)

\* C13: on a control byte c in 0x80..0xfe the codec appends one zero and
\* then the next n = (c & 0x7f) + 7 unprocessed input bytes, in processing
\* order, and fails with Malformed when fewer than n are left; after the
\* reversal the zero follows the literals: decode([1,2,3,4,5,6,7,0x80]) is
\* [1,2,3,4,5,6,7,0].
C13_ZeroPlusRunRule ==
    /\ [][ ( /\ codec.pc = "run"
             /\ codec.it # <<>>
             /\ Last(codec.it) \in 128..254 )
           => LET c    == Last(codec.it)
                  rest == Front(codec.it)
                  n    == (c - 128) + 7
                  old  == Len(codec.res)
              IN  IF Len(rest) < n
                  THEN codec'.pc = "done" /\ codec'.out = Err("Malformed")
                  ELSE /\ codec'.pc = "run"
                       /\ Len(codec'.res) = old + 1 + n
                       /\ SubSeq(codec'.res, 1, old) = codec.res
                       /\ codec'.res[old + 1] = 0
                       /\ \A j \in 1..n :
                              codec'.res[old + 1 + j] = rest[Len(rest) + 1 - j]
                       /\ Len(codec'.it) = Len(rest) - n
                       /\ IsPrefix(codec'.it, rest)
         ]_vars
    /\ [](( /\ codec.pc = "done"
            /\ codec.data = <<1, 2, 3, 4, 5, 6, 7, 128>> )
          => codec.out = Ok(<<1, 2, 3, 4, 5, 6, 7, 0>>))

\* Control byte 0x81 copied a run of eight literals and decoding went on
\* with the literal left over, 1, as the next control byte.
C13_Witness ==
    /\ codec.data = Filler(9) \o <<129>>
    /\ codec.ctrl = <<129>>
    /\ codec.pc = "run"
    /\ codec.it = <<1>>
    /\ codec.res = <<0, 9, 8, 7, 6, 5, 4, 3, 2>>

\* C14: on control byte 0xff the codec appends exactly the next 134
\* unprocessed input bytes, unchanged and without a zero, and fails with
\* Malformed when fewer than 134 are left.
C14_RawRunRule ==
    [][ ( /\ codec.pc = "run"
          /\ codec.it # <<>>
          /\ Last(codec.it) = 255 )
        => LET rest == Front(codec.it)
               old  == Len(codec.res)
           IN  IF Len(rest) < 134
               THEN codec'.pc = "done" /\ codec'.out = Err("Malformed")
               ELSE /\ codec'.pc = "run"
                    /\ Len(codec'.res) = old + 134
                    /\ SubSeq(codec'.res, 1, old) = codec.res
                    /\ \A j \in 1..134 :
                           codec'.res[old + j] = rest[Len(rest) + 1 - j]
                    /\ Len(codec'.it) = Len(rest) - 134
                    /\ IsPrefix(codec'.it, rest)
      ]_vars

\* 134 literals and 0xff decoded to those 134 literals.
C14_Witness ==
    /\ codec.pc = "done"
    /\ codec.data = Filler(134) \o <<255>>
    /\ codec.ctrl = <<255>>
    /\ codec.out = Ok(Filler(134))

\* C15: the codec fails with Malformed whenever the byte it reads as a
\* control byte is 0x00, as in decode([0]); and whatever the input, a
\* failure of the codec is Malformed, never UnexpectedEof.
C15_OnlyMalformed ==
    /\ [][ ( /\ codec.pc = "run"
             /\ codec.it # <<>>
             /\ Last(codec.it) = 0 )
           => (codec'.pc = "done" /\ codec'.out = Err("Malformed")) ]_vars
    /\ [](codec.pc = "done" =>
            /\ codec.out.ok \/ codec.out.err = "Malformed"
            /\ codec.out = rzcobs_decode(codec.data)
            /\ codec.data = <<0>> => codec.out = Err("Malformed"))

\* A 0x00 was read as the second control byte, after a 0x7f that decoded.
C15_Witness ==
    /\ codec.pc = "done"
    /\ codec.data = <<0, 127>>
    /\ codec.ctrl = <<127, 0>>
    /\ codec.res = <<0, 0, 0, 0, 0, 0, 0>>
    /\ codec.out = Err("Malformed")

\* C17: advance_inner, called with the position of the first 0x00, leaves
\* the suffix of the old buffer that starts at the first non-zero byte after
\* that position, or nothing when there is none: the frame bytes and the
\* whole separator run are removed, and what follows is kept as it was.
C17_AdvanceEffect ==
    (op \in {"decode", "frame_and_decode"} /\ HasZero(pre)) =>
        LET z    == Min({i \in 1..Len(pre) : pre[i] = 0})
            K    == {k \in z..Len(pre) : pre[k] # 0}
            gone == Len(pre) - Len(raw)
        IN  /\ raw = IF K = {} THEN <<>> ELSE SubSeq(pre, Min(K), Len(pre))
            /\ gone >= z
            /\ \A i \in 1..Len(raw) : raw[i] = pre[gone + i]
            /\ \A i \in z..gone : pre[i] = 0
            /\ \A i \in 1..(z - 1) : pre[i] # 0

\* A frame and a run of two separators were removed and the frame after
\* them, with its separator, was kept.
C17_Witness ==
    /\ op \in {"decode", "frame_and_decode"}
    /\ pre = <<126, 0, 0, 127, 0>>
    /\ raw = <<127, 0>>

\* C18: received() on a non-empty buffer appends the bytes unchanged,
\* leading 0x00 included, after the old content; on an empty buffer it
\* stores the bytes without their leading run of 0x00 and keeps later 0x00,
\* and leaves the buffer empty when the bytes are none or all zeros.
C18_ReceiveEffect ==
    [][ op' = "received" =>
            LET data    == SubSeq(stream', Len(stream) + 1, Len(stream'))
                lead    == Len(data) - Len(SkipSeparators(data))
            IN  /\ raw # <<>> => raw' = raw \o data
                /\ raw = <<>> =>
                       /\ Len(raw') = Len(data) - lead
                       /\ \A i \in 1..Len(raw') : raw'[i] = data[lead + i]
                       /\ (\A i \in 1..Len(data) : data[i] = 0) => raw' = <<>>
      ]_vars

\* An empty buffer got [0x00, 0x7f, 0x00] in one call and kept [0x7f, 0x00].
C18_Witness ==
    /\ op = "received"
    /\ stream = <<0, 127, 0>>
    /\ pre = <<>>
    /\ raw = <<127, 0>>
    /\ outs = <<>>

\* The output bytes a control byte accounts for, and the literal bytes it
\* consumes.
OutputOf(c) ==
    CASE c \in 1..127   -> 7
      [] c \in 128..254 -> 1 + ((c - 128) + 7)
      [] c = 255        -> 134
      [] OTHER          -> 0

LiteralsOf(c) ==
    CASE c \in 1..127   -> ClearBefore(c, 8)
      [] c \in 128..254 -> (c - 128) + 7
      [] c = 255        -> 134
      [] OTHER          -> 0

RECURSIVE OutputLen(_)
OutputLen(cs) == IF cs = <<>> THEN 0 ELSE OutputOf(Head(cs)) + OutputLen(Tail(cs))

RECURSIVE LiteralCount(_)
LiteralCount(cs) ==
    IF cs = <<>> THEN 0 ELSE LiteralsOf(Head(cs)) + LiteralCount(Tail(cs))

\* C19: the codec ends after at most one loop iteration per input byte, and
\* while it runs and when it succeeds every input byte processed was
\* consumed once, as a control byte or as a literal; the output has 7 bytes
\* per bitmap control byte, 1 + n per 0x80..0xfe control byte and 134 per
\* 0xff; the empty input gives the empty output and a non-empty input that
\* decodes gives at least 7 bytes.
C19_ConsumesEveryByteOnce ==
    /\ Len(codec.ctrl) <= Len(codec.data)
    /\ codec.pc = "run" =>
           /\ Len(codec.res) = OutputLen(codec.ctrl)
           /\ Len(codec.ctrl) + LiteralCount(codec.ctrl) + Len(codec.it)
                  = Len(codec.data)
    /\ (codec.pc = "done" /\ codec.out.ok) =>
           /\ codec.it = <<>>
           /\ Len(codec.out.val) = OutputLen(codec.ctrl)
           /\ Len(codec.ctrl) + LiteralCount(codec.ctrl) = Len(codec.data)
           /\ codec.data = <<>> => codec.out.val = <<>>
           /\ codec.data # <<>> => Len(codec.out.val) >= 7
    /\ codec.pc = "done" => codec.out = rzcobs_decode(codec.data)

\* The input [0x7f, 0x7e, 0x7f] decoded to 14 bytes: two control bytes and
\* one literal.
C19_Witness ==
    /\ codec.pc = "done"
    /\ codec.out.ok
    /\ codec.data = <<127, 126, 127>>
    /\ codec.ctrl = <<127, 126>>
    /\ Len(codec.out.val) = 14

\* C20: for every control byte c in 0x80..0xfe the run length n that the
\* codec computes in u8 arithmetic is (c & 0x7f) + 7 itself, between 7 and
\* 133: the addition does not wrap.
C20_RunLengthInRange ==
    (codec.ctrl # <<>> /\ Last(codec.ctrl) \in 128..254) =>
        LET c == Last(codec.ctrl)
        IN  /\ codec.n = (c - 128) + 7
            /\ codec.n \in 7..133
            /\ (c - 128) + 7 < 256

\* The largest control byte of the range, 0xfe, gave n = 133 and copied 133
\* literals.
C20_Witness ==
    /\ codec.pc = "done"
    /\ codec.ctrl = <<254>>
    /\ codec.n = 133
    /\ codec.out = Ok(Filler(133) \o <<0>>)

====
